---- MODULE Spec2Model ----
(***************************************************************************)
(* Model of the OECS MVP wrapper (main.py): the onboarding state machine,  *)
(* the signed session credential (PMT), the risk-budget ledger, the        *)
(* hard-stop filter and the /chat and /reset endpoints.                    *)
(*                                                                         *)
(* Text is a sequence of lexemes.  A lexeme is a string that the code      *)
(* never looks inside in the runs explored here: a single digit, ":",      *)
(* " ", or a word.  upper(), lower(), strip(), the `in` substring test     *)
(* and re.findall are computed on these sequences.                         *)
(* The clock counts whole hours, the unit of session.duration_hours.       *)
(***************************************************************************)
EXTENDS Integers, Sequences, FiniteSets, TLC

VARIABLES session, now, last, trail, tok, decoded, req, draw

vars == <<session, now, last, trail, tok, decoded, req, draw>>

----------------------------------------------------------------------------
(* Bounds of the exploration *)

\* The clock stops at MaxNow hours.
MaxNow == 1

\* The clock of the credential round trip stops at MaxClock hours.
MaxClock == 5

\* A session is explored while its history holds at most MaxHist turns and
\* it can still complete the onboarding and one ACTIVE turn within them.
MaxHist == 14


----------------------------------------------------------------------------
(* Text primitives *)

Digits == {"0", "1", "2", "3", "4", "5", "6", "7", "8", "9"}

DigitVal(d) ==
    CASE d = "0" -> 0 [] d = "1" -> 1 [] d = "2" -> 2 [] d = "3" -> 3
      [] d = "4" -> 4 [] d = "5" -> 5 [] d = "6" -> 6 [] d = "7" -> 7
      [] d = "8" -> 8 [] d = "9" -> 9

\* str.upper() on one lexeme
UpperLex(w) ==
    CASE w = "accept" -> "ACCEPT"
      [] w = "Accept" -> "ACCEPT"
      [] w = "decline" -> "DECLINE"
      [] w = "renew" -> "RENEW"
      [] w = "Renew" -> "RENEW"
      [] w = "diagnostic" -> "DIAGNOSTIC"
      [] w = "bomb" -> "BOMB"
      [] w = "Bomb" -> "BOMB"
      [] w = "hello" -> "HELLO"
      [] w = "step" -> "STEP"
      [] w = "illegal" -> "ILLEGAL"
      [] w = "drug" -> "DRUG"
      [] w = "maybe" -> "MAYBE"
      [] w = "Paradox" -> "PARADOX"
      [] w = "paradox" -> "PARADOX"
      [] w = "Reality" -> "REALITY"
      [] w = "reality" -> "REALITY"
      [] w = "alternative" -> "ALTERNATIVE"
      [] w = "fine" -> "FINE"
      [] w = "I consent to " -> "I CONSENT TO "
      [] w = " mode under OECS-MVP terms - nonce: x7k9p2m"
             -> " MODE UNDER OECS-MVP TERMS - NONCE: X7K9P2M"
      [] OTHER -> w

\* str.lower() on one lexeme
LowerLex(w) ==
    CASE w = "ACCEPT" -> "accept"
      [] w = "Accept" -> "accept"
      [] w = "DECLINE" -> "decline"
      [] w = "RENEW" -> "renew"
      [] w = "Renew" -> "renew"
      [] w = "DIAGNOSTIC" -> "diagnostic"
      [] w = "OPEN_EPISTEMIC" -> "open_epistemic"
      [] w = "CO_CREATION" -> "co_creation"
      [] w = "SIMULATION" -> "simulation"
      [] w = "CONSENSUS_SAFE" -> "consensus_safe"
      [] w = "BOMB" -> "bomb"
      [] w = "Bomb" -> "bomb"
      [] w = "Paradox" -> "paradox"
      [] w = "Reality" -> "reality"
      [] w = "I consent to " -> "i consent to "
      [] w = " mode under OECS-MVP terms - nonce: x7k9p2m"
             -> " mode under oecs-mvp terms - nonce: x7k9p2m"
      [] OTHER -> w

upper(text) == [i \in 1..Len(text) |-> UpperLex(text[i])]

lower(text) == [i \in 1..Len(text) |-> LowerLex(text[i])]

IsSpace(w) == w = " "

RECURSIVE lstrip(_)
lstrip(text) ==
    IF text # <<>> /\ IsSpace(Head(text)) THEN lstrip(Tail(text)) ELSE text

RECURSIVE rstrip(_)
rstrip(text) ==
    IF text # <<>> /\ IsSpace(text[Len(text)])
    THEN rstrip(SubSeq(text, 1, Len(text) - 1))
    ELSE text

\* str.strip()
strip(text) == rstrip(lstrip(text))

\* the substring test `kw in text`
Contains(text, kw) ==
    \E i \in 1..(Len(text) - Len(kw) + 1) :
        SubSeq(text, i, i + Len(kw) - 1) = kw

\* the end of the maximal run of digits (of spaces) that starts at i; i - 1
\* when there is none
RECURSIVE DigitRunEnd(_, _)
DigitRunEnd(text, i) ==
    IF i <= Len(text) /\ text[i] \in Digits THEN DigitRunEnd(text, i + 1) ELSE i - 1

RECURSIVE SpaceRunEnd(_, _)
SpaceRunEnd(text, i) ==
    IF i <= Len(text) /\ IsSpace(text[i]) THEN SpaceRunEnd(text, i + 1) ELSE i - 1

\* re.findall(r"\d+:\s*(\d+)", text) scanning from position i: the captured
\* digit groups of the leftmost non-overlapping matches, in order.
RECURSIVE FindAllFrom(_, _)
FindAllFrom(text, i) ==
    IF i > Len(text) THEN <<>>
    ELSE LET e1 == DigitRunEnd(text, i)
             c  == e1 + 1
             e2 == SpaceRunEnd(text, c + 1)
             e3 == DigitRunEnd(text, e2 + 1)
         IN  IF e1 >= i /\ c <= Len(text) /\ text[c] = ":" /\ e3 > e2
             THEN <<SubSeq(text, e2 + 1, e3)>> \o FindAllFrom(text, e3 + 1)
             ELSE FindAllFrom(text, i + 1)

findall(text) == FindAllFrom(text, 1)

\* int(v) for a string of digits
RECURSIVE int(_)
int(v) ==
    IF Len(v) = 1 THEN DigitVal(v[1])
    ELSE 10 * int(SubSeq(v, 1, Len(v) - 1)) + DigitVal(v[Len(v)])

----------------------------------------------------------------------------
(* Configuration and text assets *)

JWT_SECRET == "JWT_SECRET_KEY"

ALGORITHM == "HS256"

\* Python None, for a value that is otherwise a record
None == [none |-> TRUE]

\* Python None, for session.mode
NoMode == "None"

modes == <<"DIAGNOSTIC", "OPEN_EPISTEMIC", "CO_CREATION", "SIMULATION", "CONSENSUS_SAFE">>

keys == <<"epistemic_uncertainty", "metaphysical_abstraction",
          "non_consensus_reasoning", "paradox_exposure">>

Categories == {keys[i] : i \in 1..Len(keys)}

durations == <<1, 4, 24, 999999>>

MODE_CONTRACTS(m) ==
    <<"MODE CONTRACT - ", m, "Type \"", "ACCEPT", " ", m, "\" to proceed, or \"", "DECLINE", "\".">>

HARD_STOP_KEYWORDS ==
    { <<"bomb">>, <<"explosive">>, <<"illegal", " ", "drug">>,
      <<"hack", " ", "government">>, <<"child", " ", "exploitation">> }

\* any(kw in text.lower() for kw in HARD_STOP_KEYWORDS)
HardStop(text) == \E kw \in HARD_STOP_KEYWORDS : Contains(lower(text), kw)

\* session.__init__()
SessionState ==
    [ step           |-> "mode_selection",
      mode           |-> NoMode,
      risk_budget    |-> [k \in {} |-> 0],
      duration_hours |-> 24,
      pmt            |-> None,
      history        |-> <<>> ]

----------------------------------------------------------------------------
(* Credential: jwt.encode / jwt.decode with HS256 *)

\* the HMAC of a header and payload under a key; two signatures are equal
\* exactly when key, header and payload are
HS256(key, header, payload) == [key |-> key, header |-> header, payload |-> payload]

jwt_encode(payload, key, algorithm) ==
    [ header    |-> algorithm,
      payload   |-> payload,
      signature |-> HS256(key, algorithm, payload) ]

\* jwt.decode raises on a malformed token, on an algorithm that is not
\* allowed, on a signature mismatch and on an elapsed exp; Raised stands for
\* the exception
Raised == [raised |-> TRUE]

jwt_decode(token, key, algorithms, t) ==
    IF DOMAIN token # {"header", "payload", "signature"} THEN Raised
    ELSE IF token.header \notin algorithms THEN Raised
    ELSE IF token.signature # HS256(key, token.header, token.payload) THEN Raised
    ELSE IF token.payload.exp <= t THEN Raised
    ELSE token.payload

\* create_pmt() for session s at time t
\* the credential that always lasts the default 24 hours
create_pmt_default_duration(s, t) ==
    jwt_encode([ mode        |-> s.mode,
                 risk_budget |-> s.risk_budget,
                 exp         |-> t + 24 ],
               JWT_SECRET, ALGORITHM)

create_pmt(s, t) ==
    jwt_encode([ mode        |-> s.mode,
                 risk_budget |-> s.risk_budget,
                 exp         |-> t + s.duration_hours ],
               JWT_SECRET, ALGORITHM)

\* decode_pmt without its try/except
decode_pmt_raising(token, t) == jwt_decode(token, JWT_SECRET, {ALGORITHM}, t)

\* decode_pmt(token) at time t
decode_pmt(token, t) ==
    LET r == jwt_decode(token, JWT_SECRET, {ALGORITHM}, t)
    IN  IF r = Raised THEN None ELSE r

----------------------------------------------------------------------------
(* Interrupt records and the ledger *)

\* details is a text, as the f-string of BUDGET_WARNING builds it; the lexeme
\* "timestamp" stands for the formatted time of the call, whose value no
\* handler reads back
emit_ctp(constraint_id, trigger, details) ==
    <<"ctp", constraint_id, trigger, "output_generation", "INTERRUPT", "timestamp">>
      \o details \o <<"end">>

\* str(session.risk_budget)
BudgetText(b) ==
    IF DOMAIN b = {} THEN <<"{}">>
    ELSE [i \in 1..Len(keys) |-> ToString(b[keys[i]])]

AnyWord(text, words) == \E w \in words : Contains(text, <<w>>)

simple_risk_decrement(response) ==
    LET lowered == lower(response)
    IN  [k \in Categories |->
           CASE k = "epistemic_uncertainty" ->
                  IF AnyWord(lowered, {"maybe", "possibly", "hypothesis", "unclear"})
                  THEN 1 ELSE 0
             [] k = "metaphysical_abstraction" ->
                  IF AnyWord(lowered, {"ontology", "simulation", "consciousness",
                                       "reality", "dream"})
                  THEN 2 ELSE 0
             [] k = "non_consensus_reasoning" ->
                  IF AnyWord(lowered, {"non-consensus", "alternative", "contrary", "trap"})
                  THEN 1 ELSE 0
             [] k = "paradox_exposure" ->
                  IF AnyWord(lowered, {"paradox", "contradiction", "both", "loop",
                                       "recursive"})
                  THEN 2 ELSE 0]

Max(a, b) == IF a >= b THEN a ELSE b

\* the decrement without the floor at 0
Decrement_unfloored(budget, consumption) ==
    [k \in DOMAIN budget |-> budget[k] - consumption[k]]

\* session.risk_budget[k] = max(0, session.risk_budget[k] - v) for every k
Decrement(budget, consumption) ==
    [k \in DOMAIN budget |-> Max(0, budget[k] - consumption[k])]

\* the budget check with v < 0
Depleted_negative(budget) == \E k \in DOMAIN budget : budget[k] < 0

\* any(v <= 0 for v in session.risk_budget.values())
Depleted(budget) == \E k \in DOMAIN budget : budget[k] <= 0

----------------------------------------------------------------------------
(* handle_initiation: one operator per onboarding step.  Each takes the    *)
(* session and the input and yields the session after the step and the     *)
(* response string.                                                        *)

Reply(s, response) == [session |-> s, response |-> response]

\* mode selection that goes straight to the allocation
step_mode_selection_skip(s, user_input) ==
    IF user_input \in {<<"1">>, <<"2">>, <<"3">>, <<"4">>, <<"5">>}
    THEN LET m == modes[int(user_input)]
         IN  Reply([s EXCEPT !.mode = m, !.step = "risk_budget"], MODE_CONTRACTS(m))
    ELSE Reply(s, <<"Invalid choice. Reply with 1-5 only.">>)

step_mode_selection(s, user_input) ==
    IF user_input \in {<<"1">>, <<"2">>, <<"3">>, <<"4">>, <<"5">>}
    THEN LET m == modes[int(user_input)]
         IN  Reply([s EXCEPT !.mode = m, !.step = "contract"], MODE_CONTRACTS(m))
    ELSE Reply(s, <<"Invalid choice. Reply with 1-5 only.">>)

step_contract(s, user_input) ==
    LET expected == <<"ACCEPT", " ", s.mode>>
    IN  IF upper(user_input) = expected
        THEN Reply([s EXCEPT !.step = "risk_budget"],
                   <<"Allocate risk budget (0-10 per category)">>)
        ELSE IF upper(user_input) = <<"DECLINE">>
        THEN Reply(SessionState, <<"Session reset. Select mode 1-5.">>)
        ELSE Reply(s, <<"Type \"">> \o expected \o <<"\" or \"", "DECLINE", "\"">>)

\* the allocation step that stores any four values
step_risk_budget_unchecked(s, user_input) ==
    LET matches == findall(user_input)
    IN  IF Len(matches) = 4
        THEN LET values == [i \in 1..4 |-> int(matches[i])]
             IN  Reply([s EXCEPT
                          !.risk_budget =
                              [k \in Categories |->
                                 values[CHOOSE i \in 1..4 : keys[i] = k]],
                          !.step = "duration"],
                       <<"Select duration: [1] 1h [2] 4h [3] 24h [4] Indefinite">>)
        ELSE Reply(s, <<"Parsing error. Please ensure you have 4 categories defined">>)

step_risk_budget(s, user_input) ==
    LET matches == findall(user_input)
    IN  IF Len(matches) = 4
        THEN LET values == [i \in 1..4 |-> int(matches[i])]
             IN  IF \A i \in 1..4 : 0 <= values[i] /\ values[i] <= 10
                 THEN Reply([s EXCEPT
                               !.risk_budget =
                                   [k \in Categories |->
                                      values[CHOOSE i \in 1..4 : keys[i] = k]],
                               !.step = "duration"],
                            <<"Select duration: [1] 1h [2] 4h [3] 24h [4] Indefinite">>)
                 ELSE Reply(s, <<"Values must be between 0 and 10.">>)
        ELSE Reply(s, <<"Parsing error. Please ensure you have 4 categories defined">>)

\* a duration step that falls back to the indefinite duration on a bad reply
step_duration_default(s, user_input) ==
    IF user_input \in {<<"1">>, <<"2">>, <<"3">>, <<"4">>}
    THEN Reply([s EXCEPT !.duration_hours = durations[int(user_input)],
                         !.step = "handshake"],
               <<"Final consent: Copy-paste exactly: ", "I consent to ", s.mode,
                 " mode under OECS-MVP terms - nonce: x7k9p2m">>)
    ELSE Reply([s EXCEPT !.duration_hours = durations[4]], <<"Reply 1-4.">>)

step_duration(s, user_input) ==
    IF user_input \in {<<"1">>, <<"2">>, <<"3">>, <<"4">>}
    THEN Reply([s EXCEPT !.duration_hours = durations[int(user_input)],
                         !.step = "handshake"],
               <<"Final consent: Copy-paste exactly: ", "I consent to ", s.mode,
                 " mode under OECS-MVP terms - nonce: x7k9p2m">>)
    ELSE Reply(s, <<"Reply 1-4.">>)

\* a handshake that issues the token and forgets to activate the session
step_handshake_no_step(s, user_input, t) ==
    IF strip(user_input) = <<"I consent to ", s.mode,
                              " mode under OECS-MVP terms - nonce: x7k9p2m">>
    THEN Reply([s EXCEPT !.pmt = create_pmt(s, t)], <<"HANDSHAKE COMPLETE">>)
    ELSE Reply(s, <<"Phrase mismatch. Copy exactly.">>)

step_handshake(s, user_input, t) ==
    LET expected == <<"I consent to ", s.mode,
                      " mode under OECS-MVP terms - nonce: x7k9p2m">>
    IN  IF strip(user_input) = expected
        THEN Reply([s EXCEPT !.pmt = create_pmt(s, t), !.step = "active"],
                   <<"HANDSHAKE COMPLETE PMT Issued. Mode: ", s.mode, " Budget: ">>
                     \o BudgetText(s.risk_budget)
                     \o <<" Session Active. Begin inquiry.">>)
        ELSE Reply(s, <<"Phrase mismatch. Copy exactly.">>)

handle_initiation(s, user_input, t) ==
    IF s.step = "mode_selection" THEN step_mode_selection(s, user_input)
    ELSE IF s.step = "contract" THEN step_contract(s, user_input)
    ELSE IF s.step = "risk_budget" THEN step_risk_budget(s, user_input)
    ELSE IF s.step = "duration" THEN step_duration(s, user_input)
    ELSE IF s.step = "handshake" THEN step_handshake(s, user_input, t)
    ELSE Reply(s, <<"Initiation error.">>)

----------------------------------------------------------------------------
(* handle_active_session.  out is what model.generate_content would do if  *)
(* it were called in this turn: out.ok says whether it returns, out.text   *)
(* is response.text.  The result also records whether the call was made    *)
(* (calls), the history handed to it (sent) and the raw text (raw).        *)

NoCall == [calls |-> 0, sent |-> <<>>, raw |-> <<>>, failed |-> FALSE]

\* the validation that only looks whether a token is stored
PmtRejected_no_decode(s, t) == s.pmt = None

\* the validation placed behind the hard-stop pre-check
PmtRejected_after_pre_check(s, t) ==
    /\ ~HardStop(s.history[Len(s.history)].parts[1])
    /\ (s.pmt = None \/ decode_pmt(s.pmt, t) = None)

\* 1. PMT validation
PmtRejected(s, t) == s.pmt = None \/ decode_pmt(s.pmt, t) = None

\* the pre-check reading the first turn of the history
PreCheckHit_first(s) == HardStop(s.history[1].parts[1])

\* 2. hard stop check on the last turn of the history
PreCheckHit(s) == HardStop(s.history[Len(s.history)].parts[1])

\* the post-check without lower()
PostCheckHit_cased(raw_text) == \E kw \in HARD_STOP_KEYWORDS : Contains(raw_text, kw)

\* 7. hard stop check on the raw text of the model
PostCheckHit(raw_text) == HardStop(raw_text)

\* the prefix that waits for a category to fall below 0
ctp_prefix_below_zero(budget) ==
    LET depleted == SelectSeq(keys, LAMBDA k : budget[k] < 0)
    IN  IF depleted # <<>>
        THEN emit_ctp("BUDGET_WARNING", "depletion_imminent",
                      <<"Depleted: ">> \o depleted)
        ELSE <<>>

\* 9. the BUDGET_WARNING prefix
ctp_prefix(budget) ==
    LET depleted == SelectSeq(keys, LAMBDA k : budget[k] <= 0)
    IN  IF depleted # <<>>
        THEN emit_ctp("BUDGET_WARNING", "depletion_imminent",
                      <<"Depleted: ">> \o depleted)
        ELSE <<>>

\* the rejection that also drops the rejected credential
pmt_invalid_clearing(s) ==
    [session |-> [s EXCEPT !.pmt = None],
     response |-> emit_ctp("PMT_INVALID", "invalid_signature",
                           <<"Session terminated.">>)]

\* the return of the PMT validation gate: the session is not touched
pmt_invalid(s) ==
    [session |-> s,
     response |-> emit_ctp("PMT_INVALID", "invalid_signature",
                           <<"Session terminated.">>)]

\* the exception handler that also drops the stored credential
backend_error_clearing(s) ==
    [session |-> [s EXCEPT !.pmt = None], response |-> <<"Backend Error: ">>]

\* except Exception as e: return f"Backend Error: {str(e)}"
backend_error(s) == [session |-> s, response |-> <<"Backend Error: ">>]

\* the try block that scores the raw text before the post-check
inference_scored_first(s, out) ==
    LET called == [calls |-> 1, sent |-> s.history,
                   raw |-> IF out.ok THEN out.text ELSE <<>>,
                   failed |-> ~out.ok]
    IN  IF ~out.ok
        THEN backend_error(s) @@ called
        ELSE LET budget == Decrement(s.risk_budget, simple_risk_decrement(out.text))
             IN  IF PostCheckHit(out.text)
                 THEN [session |-> [s EXCEPT !.risk_budget = budget],
                       response |-> emit_ctp("SAFETY_POST", "hard_stop_output",
                                             <<"Response contained prohibited content.">>)]
                      @@ called
                 ELSE [session |-> [s EXCEPT !.risk_budget = budget],
                       response |-> ctp_prefix(budget) \o out.text
                                      \o <<"Running Risk Budget: ">> \o BudgetText(budget)]
                      @@ called

\* the try block: the call of the model on the history, and what follows
\* its return or its exception
inference(s, out) ==
    LET called == [calls |-> 1, sent |-> s.history,
                   raw |-> IF out.ok THEN out.text ELSE <<>>,
                   failed |-> ~out.ok]
    IN  IF ~out.ok
        THEN backend_error(s) @@ called
        ELSE IF PostCheckHit(out.text)
        THEN [session |-> s,
              response |-> emit_ctp("SAFETY_POST", "hard_stop_output",
                                    <<"Response contained prohibited content.">>)]
             @@ called
        ELSE LET budget == Decrement(s.risk_budget, simple_risk_decrement(out.text))
             IN  [session |-> [s EXCEPT !.risk_budget = budget],
                  response |-> ctp_prefix(budget) \o out.text
                                 \o <<"Running Risk Budget: ">> \o BudgetText(budget)]
                 @@ called

handle_active_session(s, t, out) ==
    IF PmtRejected(s, t)
    THEN pmt_invalid(s) @@ NoCall
    ELSE IF PreCheckHit(s)
    THEN [session |-> s,
          response |-> emit_ctp("SAFETY_PRE", "hard_stop_keyword",
                                <<"Illegal content requested.">>)] @@ NoCall
    ELSE IF Depleted(s.risk_budget)
    THEN [session |-> s,
          response |-> emit_ctp("BUDGET_DEPLETED", "zero_balance",
                                <<"Risk budget exhausted. Reply 'RENEW' to continue.">>)]
         @@ NoCall
    ELSE inference(s, out)

----------------------------------------------------------------------------
(* The endpoints *)

\* the condition of the "Renew" command shortcut
RenewCommand(user_input) ==
    upper(user_input) = <<"RENEW">> \/ Contains(user_input, <<"1", ":">>)

Turn(role, text) == [role |-> role, parts |-> <<text>>]

\* POST /chat with body {"message": message}
chat(s, message, t, out) ==
    LET user_input == strip(message)
    IN  IF s.step = "active" /\ RenewCommand(user_input)
        THEN [session |-> [s EXCEPT !.risk_budget = [k \in DOMAIN s.risk_budget |-> 10]],
              response |-> <<"ADMIN: Risk Budget replenished to 10/10.">>,
              user_input |-> user_input, renewed |-> TRUE] @@ NoCall
        ELSE LET s1 == [s EXCEPT !.history = Append(s.history, Turn("user", user_input))]
                 r  == IF s1.pmt = None
                       THEN handle_initiation(s1, user_input, t) @@ NoCall
                       ELSE handle_active_session(s1, t, out)
             IN  [r EXCEPT !.session.history =
                               Append(r.session.history, Turn("model", r.response))]
                 @@ [user_input |-> user_input, renewed |-> FALSE]

\* POST /reset
reset_session(s) == SessionState

----------------------------------------------------------------------------
(* The environment: what clients send and what the inference collaborator  *)
(* answers                                                                 *)

Pair(i, v) == <<i, ":">> \o v

Alloc(a, b, c, d) ==
    Pair("1", a) \o <<" ">> \o Pair("2", b) \o <<" ">> \o Pair("3", c)
      \o <<" ">> \o Pair("4", d)

Consent(m) == <<"I consent to ", m, " mode under OECS-MVP terms - nonce: x7k9p2m">>

\* what a client sends at each step: the replies the step accepts and some
\* it does not
Messages(s) ==
    CASE s.step = "mode_selection" ->
           { <<"1">>, <<" ", "2">>, <<"5">>, <<"6">>, <<"hello">>, <<" ", "Renew">> }
      [] s.step = "contract" ->
           { <<"accept", " ", "DIAGNOSTIC">>, <<"ACCEPT", " ", "OPEN_EPISTEMIC">>,
             <<"decline">>, <<"ACCEPT", " ", "DIAGNOSTIC", " ", "mode">>,
             <<"hello">>, <<" ", "Renew">> }
      [] s.step = "risk_budget" ->
           { Alloc(<<"1">>, <<"1">>, <<"1">>, <<"3">>),
             <<"1", ":", " ", "3", " ", "2", ":", "0", " ", "3", ":", "1", "0", " ",
               "4", ":", " ", "3">>,
             Alloc(<<"1", "1">>, <<"2">>, <<"1">>, <<"2">>),
             Pair("1", <<"5">>) \o <<" ">> \o Pair("2", <<"5">>) \o <<" ">>
               \o Pair("3", <<"5">>),
             Alloc(<<"1">>, <<"2">>, <<"1">>, <<"2">>) \o <<" ">> \o Pair("5", <<"1">>),
             <<"hello">>, <<" ", "Renew">> }
      [] s.step = "duration" ->
           { <<"1">>, <<" ", "4">>, <<"5">>, <<"hello">>, <<" ", "Renew">> }
      [] s.step = "handshake" ->
           { Consent("DIAGNOSTIC") \o <<" ">>, Consent("CO_CREATION"),
             lower(Consent("DIAGNOSTIC")), <<"hello">>, <<" ", "Renew">> }
      [] s.step = "active" ->
           { <<" ", "Renew">>,
             <<"step", " ", "1", ":", " ", "hello">>,
             <<"1", "1", ":", "3", "0", " ", "Bomb">>,
             <<"hello">>, <<"a", " ", "Bomb">> }

Outputs ==
    { [ok |-> TRUE,  text |-> <<"fine">>],
      [ok |-> TRUE,  text |-> <<"maybe", " ", "Reality", " ", "alternative", " ", "Paradox">>],
      [ok |-> TRUE,  text |-> <<"maybe", " ", "a", " ", "BOMB">>],
      [ok |-> FALSE, text |-> <<>>] }

----------------------------------------------------------------------------
(* The state machine.  session is the process-wide SessionState, now the   *)
(* clock, last the record of the request handled last, trail the steps the *)
(* session went through since it was (re)initialised.  tok and decoded     *)
(* belong to the credential round trip (SpecPmt).                          *)

\* the worker threads that serve the sync endpoints, and a thread at rest
Threads == {1, 2}

Idle == [pc |-> "idle"]

NoLast == [op |-> "none", user_input |-> <<>>, response |-> <<>>, renewed |-> FALSE]
            @@ NoCall

NextTrail(tr, s) ==
    IF s.step = "mode_selection" THEN <<"mode_selection">>
    ELSE IF s.step # tr[Len(tr)] THEN Append(tr, s.step)
    ELSE tr

Init ==
    /\ session = SessionState
    /\ now = 0
    /\ last = NoLast
    /\ trail = <<"mode_selection">>
    /\ tok = None
    /\ decoded = None
    /\ req = [i \in Threads |-> Idle]
    /\ draw = None

StepIndex(step) ==
    CASE step = "mode_selection" -> 0 [] step = "contract" -> 1
      [] step = "risk_budget" -> 2 [] step = "duration" -> 3
      [] step = "handshake" -> 4 [] step = "active" -> 5

\* the longest history explored at a step: each remaining onboarding reply
\* and the ACTIVE turn after them take two turns of the history
HistCap(step) ==
    IF step = "active" THEN MaxHist
    ELSE MaxHist - 2 * (StepIndex("active") - StepIndex(step)) - 2

\* what the inference collaborator may do in a turn of session s; it is not
\* consulted by the onboarding path
OutputsFor(s) == IF s.pmt = None THEN {[ok |-> FALSE, text |-> <<>>]} ELSE Outputs

Chat ==
    /\ \E message \in Messages(session), out \in OutputsFor(session) :
          LET r == chat(session, message, now, out)
          IN  /\ Len(r.session.history) <= HistCap(r.session.step)
              /\ session' = r.session
              /\ last' = [op |-> "chat", user_input |-> r.user_input,
                          response |-> r.response, renewed |-> r.renewed,
                          calls |-> r.calls, sent |-> r.sent, raw |-> r.raw,
                          failed |-> r.failed]
              /\ trail' = NextTrail(trail, r.session)
    /\ UNCHANGED <<now, tok, decoded, req, draw>>

Reset ==
    /\ session' = reset_session(session)
    /\ last' = [NoLast EXCEPT !.op = "reset"]
    /\ trail' = <<"mode_selection">>
    /\ UNCHANGED <<now, tok, decoded, req, draw>>

Tick ==
    /\ now < MaxNow
    /\ now' = now + 1
    /\ UNCHANGED <<session, last, trail, tok, decoded, req, draw>>

Next == Chat \/ Reset \/ Tick

Spec == Init /\ [][Next]_vars

----------------------------------------------------------------------------
(* Properties of the endpoints *)

AllSteps == <<"mode_selection", "contract", "risk_budget", "duration", "handshake", "active">>

\* the stored credential carries the signature of this process and has not expired
CredentialValid ==
    /\ session.pmt # None
    /\ session.pmt.header = ALGORITHM
    /\ session.pmt.signature = HS256(JWT_SECRET, ALGORITHM, session.pmt.payload)
    /\ now < session.pmt.payload.exp

\* the step is a /chat request
ChatStep == last'.op = "chat" /\ (last' # last \/ session' # session)

IsCtp(response, constraint_id) ==
    Len(response) >= 2 /\ response[1] = "ctp" /\ response[2] = constraint_id

RenewLiteral(user_input) == upper(user_input) = <<"RENEW">>

\* C1: a /chat turn calls the inference collaborator only when, at that
\* turn, step is ACTIVE, reached through all five onboarding steps, and the
\* stored credential validates; with an absent or expired credential no
\* input causes a call.
C1_InferenceOnlyWhenActiveAndValid ==
    [][ (ChatStep /\ last'.calls > 0)
          => (session.step = "active" /\ trail = AllSteps /\ CredentialValid) ]_vars

\* an ACTIVE session that was served by the model and, after its credential
\* expired, is answered PMT_INVALID without a call
C1_Witness ==
    /\ last.op = "chat"
    /\ session.step = "active"
    /\ ~CredentialValid
    /\ IsCtp(last.response, "PMT_INVALID")
    /\ last.calls = 0
    /\ \E i \in 1..Len(session.history) :
          /\ session.history[i].role = "model"
          /\ Contains(session.history[i].parts[1], <<"Running Risk Budget: ">>)

\* C2: every /chat and /reset call leaves step unchanged, moves it to its
\* immediate successor, or sets it to MODE_SELECTION (by /reset, or by
\* DECLINE at CONTRACT).
C2_StepOrder ==
    [][ \/ session'.step = session.step
        \/ /\ ChatStep
           /\ StepIndex(session'.step) = StepIndex(session.step) + 1
        \/ /\ session'.step = "mode_selection"
           /\ \/ last'.op = "reset"
              \/ /\ ChatStep
                 /\ session.step = "contract"
                 /\ upper(last'.user_input) = <<"DECLINE">> ]_vars

\* a session that was declined at CONTRACT after a mode was chosen
C2_Witness ==
    /\ last.op = "chat"
    /\ upper(last.user_input) = <<"DECLINE">>
    /\ session.step = "mode_selection"
    /\ Len(session.history) = 1

\* C3: an ACTIVE /chat turn whose input contains a hard-stop keyword does not
\* call the inference collaborator.
C3_HardStopInputNeverInferred ==
    [][ (ChatStep /\ session.step = "active" /\ HardStop(last'.user_input))
          => last'.calls = 0 ]_vars

\* a hard-stop input stopped by the pre-check of a session whose credential
\* is valid and whose budget is not depleted
C3_Witness ==
    /\ last.op = "chat"
    /\ session.step = "active"
    /\ HardStop(last.user_input)
    /\ IsCtp(last.response, "SAFETY_PRE")
    /\ \A k \in Categories : session.risk_budget[k] > 0
    /\ last.calls = 0

\* C4: when the raw output of the model contains a hard-stop keyword, the
\* response and the model turn appended to the history are the SAFETY_POST
\* record, and neither contains the raw output.
C4_HardStopOutputNeverReturned ==
    (last.op = "chat" /\ last.calls = 1 /\ HardStop(last.raw))
      => /\ last.response = emit_ctp("SAFETY_POST", "hard_stop_output",
                                     <<"Response contained prohibited content.">>)
         /\ ~Contains(last.response, last.raw)
         /\ session.history[Len(session.history)] = Turn("model", last.response)
         /\ session.history[Len(session.history) - 1] = Turn("user", last.user_input)

\* the model answered with a hard-stop keyword
C4_Witness ==
    /\ last.op = "chat"
    /\ last.calls = 1
    /\ HardStop(last.raw)
    /\ IsCtp(last.response, "SAFETY_POST")

\* C5: an ACTIVE /chat turn that starts with a category <= 0 does not call
\* the inference collaborator, and a depleted budget stays depleted until a
\* step sets every category to 10.
C5_DepletedBlocksInference ==
    [][ /\ (ChatStep /\ session.step = "active"
              /\ \E k \in Categories : session.risk_budget[k] <= 0)
           => last'.calls = 0
        /\ (session.step = "active" /\ session'.step = "active"
              /\ \E k \in Categories : session.risk_budget[k] <= 0)
           => \/ \E k \in Categories : session'.risk_budget[k] <= 0
              \/ \A k \in Categories : session'.risk_budget[k] = 10 ]_vars

\* a turn refused for a depleted budget in a session whose credential is valid
C5_Witness ==
    /\ last.op = "chat"
    /\ session.step = "active"
    /\ IsCtp(last.response, "BUDGET_DEPLETED")
    /\ \E k \in Categories : session.risk_budget[k] = 0
    /\ last.calls = 0

\* risk_budget is empty or maps the four categories to integers in [0,10]
BudgetOK ==
    \/ DOMAIN session.risk_budget = {}
    \/ /\ DOMAIN session.risk_budget = Categories
       /\ \A k \in Categories : session.risk_budget[k] \in 0..10

\* C6: risk_budget is always empty or the four categories with values in
\* [0,10], and the decrement after a model response raises no category and
\* takes none below 0.
C6_BudgetBounded ==
    /\ []BudgetOK
    /\ [][ (ChatStep /\ last'.calls = 1)
             => \A k \in Categories :
                   /\ session'.risk_budget[k] <= session.risk_budget[k]
                   /\ session'.risk_budget[k] >= 0 ]_vars

\* a response that consumed more than a category held
C6_Witness ==
    /\ last.op = "chat"
    /\ last.calls = 1
    /\ \E k \in Categories :
          /\ session.risk_budget[k] = 0
          /\ simple_risk_decrement(last.raw)[k] = 2
          /\ session.pmt.payload.risk_budget[k] = 1

\* C7: RENEW at ACTIVE sets every category to 10, and the next input
\* (credential valid, no hard-stop keyword, not RENEW again) reaches the
\* inference collaborator.
C7_RenewThenProcessed ==
    [][ /\ (ChatStep /\ session.step = "active" /\ RenewLiteral(last'.user_input))
           => \A k \in Categories : session'.risk_budget[k] = 10
        /\ (ChatStep /\ session.step = "active"
              /\ last.op = "chat" /\ last.renewed /\ RenewLiteral(last.user_input)
              /\ CredentialValid
              /\ ~HardStop(last'.user_input)
              /\ ~RenewLiteral(last'.user_input))
           => last'.calls = 1 ]_vars

\* C8: an ACTIVE /chat input that is not exactly RENEW (trimmed, whatever
\* its case) raises no category.
C8_OnlyRenewReplenishes ==
    [][ (ChatStep /\ session.step = "active" /\ ~RenewLiteral(last'.user_input))
          => \A k \in Categories :
                session'.risk_budget[k] <= session.risk_budget[k] ]_vars

\* C10: the credential is present exactly when step is ACTIVE; it is set
\* only by the HANDSHAKE turn that activates the session, and a stored
\* credential changes only by being cleared together with the session.
C10_CredentialIssuedOnce ==
    /\ [](session.pmt # None <=> session.step = "active")
    /\ [][ session'.pmt # session.pmt
             => \/ /\ session.pmt = None
                   /\ ChatStep
                   /\ session.step = "handshake"
                   /\ session'.step = "active"
                   /\ session'.pmt = create_pmt(session, now)
                \/ /\ session'.pmt = None
                   /\ last'.op = "reset"
                   /\ session' = SessionState ]_vars

\* an ACTIVE session that handled two turns after the handshake and still
\* holds the token the handshake issued
C10_Witness ==
    /\ session.step = "active"
    /\ session.pmt # None
    /\ Len(session.history) >= 14
    /\ last.calls = 1
    /\ session.pmt.payload.risk_budget # session.risk_budget

\* C11: an ACTIVE /chat turn handled while the stored credential does not
\* validate, a RENEW turn included, leaves the risk budget as it is and
\* answers PMT_INVALID.
C11_ValidatedBeforeEffect ==
    [][ (ChatStep /\ session.step = "active" /\ ~CredentialValid)
          => /\ session'.risk_budget = session.risk_budget
             /\ IsCtp(last'.response, "PMT_INVALID") ]_vars

\* C12: once the session is ACTIVE a /chat turn changes neither step, mode
\* nor the stored credential, whatever it answers; an invalid credential
\* stays stored, and the session leaves ACTIVE through /reset only.
C12_ActiveFrame ==
    [][ /\ (ChatStep /\ session.step = "active")
            => /\ session'.step = "active"
               /\ session'.mode = session.mode
               /\ session'.pmt = session.pmt
        /\ (session.step = "active" /\ session'.step # "active")
            => last'.op = "reset" ]_vars

\* the expired credential was rejected in two turns in a row and is still
\* the stored one
C12_Witness ==
    LET h == session.history
    IN  /\ session.step = "active"
        /\ session.pmt # None
        /\ ~CredentialValid
        /\ Len(h) >= 4
        /\ IsCtp(h[Len(h)].parts[1], "PMT_INVALID")
        /\ IsCtp(h[Len(h) - 2].parts[1], "PMT_INVALID")

\* the replies a step of the onboarding accepts
ValidInput(s, user_input) ==
    CASE s.step = "mode_selection" ->
           user_input \in {<<"1">>, <<"2">>, <<"3">>, <<"4">>, <<"5">>}
      [] s.step = "contract" ->
           upper(user_input) \in {<<"ACCEPT", " ", s.mode>>, <<"DECLINE">>}
      [] s.step = "risk_budget" ->
           LET matches == findall(user_input)
           IN  /\ Len(matches) = 4
               /\ \A i \in 1..4 : int(matches[i]) \in 0..10
      [] s.step = "duration" ->
           user_input \in {<<"1">>, <<"2">>, <<"3">>, <<"4">>}
      [] s.step = "handshake" -> strip(user_input) = Consent(s.mode)
      [] OTHER -> TRUE

\* C13: a /chat input that the current onboarding step does not accept
\* leaves step, mode, risk_budget, duration and credential unchanged and is
\* answered by a plain re-prompt, not by a ctp record.
C13_InvalidInputFrame ==
    [][ (ChatStep /\ session.step # "active"
           /\ ~ValidInput(session, last'.user_input))
          => /\ session'.step = session.step
             /\ session'.mode = session.mode
             /\ session'.risk_budget = session.risk_budget
             /\ session'.duration_hours = session.duration_hours
             /\ session'.pmt = session.pmt
             /\ last'.response # <<>>
             /\ last'.response[1] # "ctp"
             /\ last'.calls = 0 ]_vars

\* an allocation with a value above 10 was refused at RISK_BUDGET
C13_Witness ==
    /\ last.op = "chat"
    /\ session.step = "risk_budget"
    /\ session.risk_budget = <<>>
    /\ last.response = <<"Values must be between 0 and 10.">>
    /\ session.history[Len(session.history)] = Turn("model", last.response)

\* C14: when the /chat call that carries DECLINE at CONTRACT returns, the
\* session equals a fresh one: step MODE_SELECTION, no mode, empty budget,
\* no credential, empty history.
C14_DeclineRestoresFresh ==
    [][ (ChatStep /\ session.step = "contract"
           /\ upper(last'.user_input) = <<"DECLINE">>)
          => session' = SessionState ]_vars

\* history h reads user, model, user, model, ... from its first turn
Alternates(h) ==
    \A i \in 1..Len(h) : h[i].role = IF i % 2 = 1 THEN "user" ELSE "model"

\* C15: between resets the history only grows: every /chat turn handled by
\* the onboarding state machine or by the active pipeline appends the user
\* turn and then the model turn, so the history alternates user, model and
\* starts with a user turn.
C15_HistoryAlternates ==
    [][ /\ Alternates(session'.history)
        /\ (ChatStep /\ ~last'.renewed)
             => \/ session'.history =
                     session.history \o <<Turn("user", last'.user_input),
                                          Turn("model", last'.response)>>
                \/ /\ session.step = "contract"
                   /\ upper(last'.user_input) = <<"DECLINE">> ]_vars

\* C16: a turn whose inference call fails calls the model once, answers a
\* plain error string, and changes nothing of the session but the history,
\* which gains the user turn and the error turn.
C16_InferenceFailureFrame ==
    [][ (ChatStep /\ last'.failed)
          => /\ last'.calls = 1
             /\ last'.response # <<>>
             /\ last'.response[1] # "ctp"
             /\ ~Contains(last'.response, <<"Running Risk Budget: ">>)
             /\ session' =
                  [session EXCEPT !.history =
                     @ \o <<Turn("user", last'.user_input),
                            Turn("model", last'.response)>>] ]_vars

\* a failed call in a session whose budget had changed since the credential
\* was issued
C16_Witness ==
    /\ last.op = "chat"
    /\ last.failed
    /\ last.response = <<"Backend Error: ">>
    /\ session.step = "active"
    /\ session.pmt # None
    /\ \E k \in Categories :
          session.risk_budget[k] # session.pmt.payload.risk_budget[k]

\* C18: the active pipeline applies its gates in the order credential,
\* hard-stop pre-check, budget: a turn that enters it with an invalid
\* credential is answered PMT_INVALID even with a hard-stop input or a
\* depleted budget; with a valid credential a hard-stop input is answered
\* SAFETY_PRE even with a depleted budget; BUDGET_DEPLETED is answered only
\* with a valid credential and an input free of hard-stop keywords.
C18_GateOrder ==
    [][ (ChatStep /\ session.step = "active" /\ ~last'.renewed)
          => /\ ~CredentialValid => IsCtp(last'.response, "PMT_INVALID")
             /\ (CredentialValid /\ HardStop(last'.user_input))
                  => IsCtp(last'.response, "SAFETY_PRE")
             /\ IsCtp(last'.response, "BUDGET_DEPLETED")
                  => (CredentialValid /\ ~HardStop(last'.user_input)) ]_vars

\* a hard-stop input sent with an expired credential and a depleted budget
\* was answered PMT_INVALID
C18_Witness ==
    /\ last.op = "chat"
    /\ session.step = "active"
    /\ ~CredentialValid
    /\ HardStop(last.user_input)
    /\ \E k \in Categories : session.risk_budget[k] = 0
    /\ IsCtp(last.response, "PMT_INVALID")

\* a hard-stop input sent with a valid credential and a depleted budget was
\* answered SAFETY_PRE
C18_WitnessPreCheck ==
    /\ last.op = "chat"
    /\ session.step = "active"
    /\ CredentialValid
    /\ HardStop(last.user_input)
    /\ \E k \in Categories : session.risk_budget[k] = 0
    /\ IsCtp(last.response, "SAFETY_PRE")

\* the categories that the step takes from above 0 to 0, in ledger order
NewlyDepleted ==
    SelectSeq(keys, LAMBDA k : session.risk_budget[k] > 0 /\ session'.risk_budget[k] = 0)

\* C19: the response of a successful inference turn starts with the
\* BUDGET_WARNING record exactly when the decrement of this turn took at
\* least one category to 0, and the record lists exactly the categories
\* that went from above 0 to 0 in this turn.
C19_WarningListsNewlyDepleted ==
    [][ (ChatStep /\ last'.calls = 1 /\ ~last'.failed /\ ~HardStop(last'.raw))
          => LET warning == emit_ctp("BUDGET_WARNING", "depletion_imminent",
                                     <<"Depleted: ">> \o NewlyDepleted)
             IN  /\ IsCtp(last'.response, "BUDGET_WARNING") <=> NewlyDepleted # <<>>
                 /\ NewlyDepleted # <<>>
                      => /\ Len(last'.response) > Len(warning)
                         /\ SubSeq(last'.response, 1, Len(warning)) = warning
                         /\ SubSeq(last'.response, Len(warning) + 1,
                                   Len(warning) + Len(last'.raw)) = last'.raw ]_vars

\* a turn that took some categories to 0 and left another above 0
C19_Witness ==
    /\ last.op = "chat"
    /\ last.calls = 1
    /\ IsCtp(last.response, "BUDGET_WARNING")
    /\ \E k \in Categories : session.risk_budget[k] = 0
    /\ \E k \in Categories : session.risk_budget[k] > 0

\* C22: a RENEW turn is recorded like every other ACTIVE turn: the history
\* grows by the RENEW user turn and by the acknowledgement as a model turn.
C22_RenewRecorded ==
    [][ (ChatStep /\ session.step = "active" /\ RenewLiteral(last'.user_input))
          => session'.history =
               session.history \o <<Turn("user", last'.user_input),
                                    Turn("model", last'.response)>> ]_vars

\* C25: the text of a user turn that matched a hard-stop keyword is never
\* sent to the model, neither in the turn that was stopped nor within the
\* history that a later turn of the session sends.
C25_HardStopTextNeverSent ==
    [][ (ChatStep /\ last'.calls > 0)
          => \A i \in 1..Len(last'.sent) :
                last'.sent[i].role = "user" => ~HardStop(last'.sent[i].parts[1]) ]_vars

\* C26: a turn that ends in the SAFETY_POST record leaves every category
\* of the risk budget unchanged: the discarded output is not scored.
C26_SafetyPostFrame ==
    [][ (ChatStep /\ IsCtp(last'.response, "SAFETY_POST"))
          => /\ last'.calls = 1
             /\ session'.risk_budget = session.risk_budget ]_vars

\* the model answered "maybe a BOMB", which would have cost a point of
\* epistemic_uncertainty, to a session with every category above 0
C26_Witness ==
    /\ last.op = "chat"
    /\ IsCtp(last.response, "SAFETY_POST")
    /\ Contains(lower(last.raw), <<"maybe">>)
    /\ session.pmt # None
    /\ session.risk_budget = session.pmt.payload.risk_budget
    /\ \A k \in Categories : session.risk_budget[k] > 0

----------------------------------------------------------------------------
(* Concurrent requests.  /chat is a sync endpoint: the framework runs each  *)
(* request on a worker thread, and main.py takes no lock around the global  *)
(* session.  A request is followed through the shortcut test and the        *)
(* append of the user turn; the handler up to the call of the model; the    *)
(* return of the model; for each category the read and the write of the     *)
(* decrement, between which the interpreter may switch threads; the         *)
(* assembly of the response; the append of the model turn.  The clock       *)
(* stands still.                                                            *)

InFlight == {i \in Threads : req[i].pc # "idle"}

\* what the clients send: the onboarding replies of one path, then inquiries,
\* and Renew while no request is being served
ConcMessages(s) ==
    CASE s.step = "mode_selection" -> { <<"1">> }
      [] s.step = "contract" -> { <<"ACCEPT", " ", "DIAGNOSTIC">> }
      [] s.step = "risk_budget" -> { Alloc(<<"1">>, <<"1">>, <<"1">>, <<"3">>) }
      [] s.step = "duration" -> { <<"3">> }
      [] s.step = "handshake" -> { Consent("DIAGNOSTIC") }
      [] s.step = "active" ->
           { <<"hello">>, <<"a", " ", "Bomb">> }
             \cup (IF InFlight = {} THEN { <<" ", "Renew">> } ELSE {})

ConcOutputs ==
    { [ok |-> TRUE, text |-> <<"fine">>],
      [ok |-> TRUE, text |-> <<"maybe", " ", "Reality", " ", "alternative", " ", "Paradox">>] }

\* lines 239-246 of chat(): the shortcut returns at once, any other input is
\* appended to the history.  Clients overlap their requests only with
\* requests that found the session ACTIVE.
Receive(i) ==
    /\ req[i].pc = "idle"
    /\ \A j \in InFlight : req[j].step = "active"
    /\ Len(session.history) + Cardinality(InFlight) + 2 <= MaxHist
    /\ \E message \in ConcMessages(session) :
          LET user_input == strip(message)
          IN  IF session.step = "active" /\ RenewCommand(user_input)
              THEN /\ session' = [session EXCEPT !.risk_budget =
                                     [k \in DOMAIN session.risk_budget |-> 10]]
                   /\ req' = req
              ELSE /\ session' = [session EXCEPT !.history =
                                     Append(@, Turn("user", user_input))]
                   /\ req' = [req EXCEPT ![i] = [pc |-> "handle",
                                                 step |-> session.step,
                                                 user_input |-> user_input]]
    /\ UNCHANGED <<now, last, trail, tok, decoded, draw>>

\* lines 248-251 of chat(): the onboarding step, or the gates of the active
\* pipeline, which end the turn or start the call of the model on the
\* history as it is then
Handle(i) ==
    /\ req[i].pc = "handle"
    /\ IF session.pmt = None
       THEN LET r == handle_initiation(session, req[i].user_input, now)
            IN  /\ session' = r.session
                /\ req' = [req EXCEPT ![i] = [req[i] EXCEPT !.pc = "respond"]
                                              @@ [response |-> r.response]]
       ELSE LET r == handle_active_session(session, now, [ok |-> FALSE, text |-> <<>>])
            IN  /\ session' = session
                /\ req' = [req EXCEPT ![i] =
                             IF r.calls = 0
                             THEN [req[i] EXCEPT !.pc = "respond"]
                                    @@ [response |-> r.response]
                             ELSE [req[i] EXCEPT !.pc = "inference"]
                                    @@ [sent |-> session.history]]
    /\ UNCHANGED <<now, last, trail, tok, decoded, draw>>

\* the model returns or raises: the exception handler, the post-check, or
\* the scoring of the raw text, which starts the loop over the categories
Infer(i) ==
    /\ req[i].pc = "inference"
    /\ \E out \in ConcOutputs :
          LET r == inference(session, out)
          IN  req' = [req EXCEPT ![i] =
                        IF out.ok /\ ~PostCheckHit(out.text)
                        THEN [pc |-> "load", step |-> req[i].step,
                              user_input |-> req[i].user_input,
                              raw |-> out.text,
                              consumption |-> simple_risk_decrement(out.text),
                              k |-> 1]
                        ELSE [pc |-> "respond", step |-> req[i].step,
                              user_input |-> req[i].user_input,
                              response |-> r.response]]
    /\ UNCHANGED <<session, now, last, trail, tok, decoded, draw>>

\* line 217, right-hand side: the read of session.risk_budget[k]
Load(i) ==
    /\ req[i].pc = "load"
    /\ req' = [req EXCEPT ![i] = [req[i] EXCEPT !.pc = "store"]
                                   @@ [tmp |-> session.risk_budget[keys[req[i].k]]]]
    /\ UNCHANGED <<session, now, last, trail, tok, decoded, draw>>

\* line 217, the assignment: session.risk_budget[k] = max(0, <value read> - v),
\* then the next category or the end of the loop
Store(i) ==
    /\ req[i].pc = "store"
    /\ LET k == keys[req[i].k]
       IN  session' = [session EXCEPT !.risk_budget[k] =
                          Max(0, req[i].tmp - req[i].consumption[k])]
    /\ req' = [req EXCEPT ![i] =
                 [pc |-> IF req[i].k < Len(keys) THEN "load" ELSE "assemble",
                  step |-> req[i].step, user_input |-> req[i].user_input,
                  raw |-> req[i].raw, consumption |-> req[i].consumption,
                  k |-> IF req[i].k < Len(keys) THEN req[i].k + 1 ELSE req[i].k]]
    /\ UNCHANGED <<now, last, trail, tok, decoded, draw>>

\* lines 220-227: the prefix and the footer read the budget as it is then
Assemble(i) ==
    /\ req[i].pc = "assemble"
    /\ req' = [req EXCEPT ![i] =
                 [pc |-> "respond", step |-> req[i].step,
                  user_input |-> req[i].user_input,
                  response |-> ctp_prefix(session.risk_budget) \o req[i].raw
                                 \o <<"Running Risk Budget: ">>
                                 \o BudgetText(session.risk_budget)]]
    /\ UNCHANGED <<session, now, last, trail, tok, decoded, draw>>

\* line 253 of chat(): the append of the model turn, and the return
Respond(i) ==
    /\ req[i].pc = "respond"
    /\ session' = [session EXCEPT !.history =
                      Append(@, Turn("model", req[i].response))]
    /\ req' = [req EXCEPT ![i] = Idle]
    /\ UNCHANGED <<now, last, trail, tok, decoded, draw>>

ConcNext ==
    \E i \in Threads :
       Receive(i) \/ Handle(i) \/ Infer(i) \/ Load(i) \/ Store(i) \/ Assemble(i)
         \/ Respond(i)

SpecConc == Init /\ [][ConcNext]_vars

\* C17: the turns of the single session do not overlap: of two /chat
\* requests issued together, one has appended its user turn, run the
\* pipeline and appended its model turn before the other begins, so the
\* history never holds two user turns in a row.
C17_TurnsSerialized ==
    /\ Cardinality(InFlight) <= 1
    /\ \A i \in 1..(Len(session.history) - 1) :
          ~(session.history[i].role = "user" /\ session.history[i + 1].role = "user")

\* C23: under concurrent requests the hard-stop pre-check of a request is
\* applied to the input of that request: no request whose input contains a
\* hard-stop keyword gets past the pre-check to the call of the model.
C23_PreCheckOwnInput ==
    \A i \in Threads : req[i].pc = "inference" => ~HardStop(req[i].user_input)

\* C24: under concurrent ACTIVE turns no update of the ledger is lost: every
\* turn takes its consumption c from the value v that the category holds
\* when the turn writes, leaving max(0, v - c); so two overlapping turns
\* that consume c1 and c2 leave max(0, v - c1 - c2), as they do when one
\* runs after the other.
C24_NoLostUpdate ==
    [][ \A i \in Threads :
           (req[i].pc = "store" /\ req'[i] # req[i])
             => LET k == keys[req[i].k]
                IN  session'.risk_budget[k]
                      = Max(0, session.risk_budget[k] - req[i].consumption[k]) ]_vars

----------------------------------------------------------------------------
(* The credential round trip: a session that reached HANDSHAKE issues a    *)
(* token, the ledger moves on, the token is altered or not, time passes,   *)
(* and decode_pmt is applied.                                              *)

DigitLex(n) == CHOOSE d \in Digits : DigitVal(d) = n

\* the session after the first four onboarding replies
Onboarded(n, alloc, d) ==
    LET out == [ok |-> FALSE, text |-> <<>>]
        s1  == chat(SessionState, <<DigitLex(n)>>, 0, out).session
        s2  == chat(s1, <<"ACCEPT", " ", modes[n]>>, 0, out).session
        s3  == chat(s2, alloc, 0, out).session
    IN  chat(s3, <<DigitLex(d)>>, 0, out).session

Allocations ==
    { Alloc(<<"1">>, <<"1">>, <<"1">>, <<"2">>),
      Alloc(<<"3">>, <<"0">>, <<"1", "0">>, <<"3">>) }

\* what someone holding the token can turn it into without the secret
Alterations(token) ==
    LET p == token.payload
        forged(q) == [token EXCEPT !.payload = q]
        resigned(q) == [token EXCEPT !.payload = q,
                                     !.signature = HS256("guessed", token.header, q)]
    IN  { forged([p EXCEPT !.exp = 999999]),
          forged([p EXCEPT !.mode = "SIMULATION"]),
          forged([p EXCEPT !.risk_budget = [k \in Categories |-> 10]]),
          resigned([p EXCEPT !.exp = 999999]),
          [token EXCEPT !.header = "none"],
          [token EXCEPT !.signature = HS256(JWT_SECRET, "none", p)],
          [header |-> token.header, payload |-> p] } \ {token}

PmtInit ==
    /\ \E n \in 1..Len(modes), alloc \in Allocations, d \in 1..Len(durations) :
          session = Onboarded(n, alloc, d)
    /\ now = 0
    /\ last = NoLast
    /\ trail = <<"mode_selection", "contract", "risk_budget", "duration", "handshake">>
    /\ tok = None
    /\ decoded = None
    /\ req = [i \in Threads |-> Idle]
    /\ draw = None

PmtIssue ==
    /\ tok = None
    /\ tok' = [ token   |-> create_pmt(session, now),
                issued  |-> [ mode        |-> session.mode,
                              risk_budget |-> session.risk_budget,
                              exp         |-> now + session.duration_hours ],
                altered |-> FALSE ]
    /\ UNCHANGED <<session, now, last, trail, decoded, req, draw>>

\* the ledger of the session moves on after the token was issued
PmtSpend ==
    /\ tok # None
    /\ session.risk_budget = tok.issued.risk_budget
    /\ \E out \in Outputs :
          /\ out.ok
          /\ session' = [session EXCEPT !.risk_budget =
                            Decrement(@, simple_risk_decrement(out.text))]
    /\ UNCHANGED <<now, last, trail, tok, decoded, req, draw>>

PmtAlter ==
    /\ tok # None
    /\ ~tok.altered
    /\ \E x \in Alterations(tok.token) :
          tok' = [tok EXCEPT !.token = x, !.altered = TRUE]
    /\ UNCHANGED <<session, now, last, trail, decoded, req, draw>>

PmtDecode ==
    /\ tok # None
    /\ decoded = None
    /\ decoded' = [tok |-> tok, at |-> now, result |-> decode_pmt(tok.token, now)]
    /\ UNCHANGED <<session, now, last, trail, tok, req, draw>>

PmtTick ==
    /\ now < MaxClock
    /\ now' = now + 1
    /\ UNCHANGED <<session, last, trail, tok, decoded, req, draw>>

PmtNext == PmtIssue \/ PmtSpend \/ PmtAlter \/ PmtDecode \/ PmtTick

SpecPmt == PmtInit /\ [][PmtNext]_vars

----------------------------------------------------------------------------
(* Properties of the credential round trip *)

\* C9: decode_pmt returns the payload the token was issued with (mode,
\* risk_budget snapshot, exp) when the token is unmodified and the time is
\* before exp; it returns None, and raises nothing, when the time is past
\* exp or the token was altered.
C9_RoundTrip ==
    decoded # None
      => /\ decoded.result # Raised
         /\ (~decoded.tok.altered /\ decoded.at < decoded.tok.issued.exp)
               => decoded.result = decoded.tok.issued
         /\ (decoded.tok.altered \/ decoded.at > decoded.tok.issued.exp)
               => decoded.result = None

\* an unmodified token decoded in time although the ledger has moved on
C9_Witness ==
    /\ decoded # None
    /\ ~decoded.tok.altered
    /\ decoded.at > 0
    /\ decoded.at < decoded.tok.issued.exp
    /\ decoded.result = decoded.tok.issued
    /\ session.risk_budget # decoded.tok.issued.risk_budget

----------------------------------------------------------------------------
(* The onboarding of every mode: the clients answer each step with a        *)
(* selector, an ACCEPT or a consent phrase of any of the five modes, an     *)
(* allocation or a duration, at any hour of the clock, until the session    *)
(* is ACTIVE.                                                               *)

Selectors(n) == {<<DigitLex(i)>> : i \in 1..n}

OnbMessages(s) ==
    CASE s.step = "mode_selection" -> Selectors(5)
      [] s.step = "contract" -> {<<"ACCEPT", " ", modes[i]>> : i \in 1..5}
      [] s.step = "risk_budget" -> Allocations
      [] s.step = "duration" -> Selectors(4)
      [] s.step = "handshake" -> {Consent(modes[i]) : i \in 1..5}
      [] OTHER -> {}

\* the longest history explored: the five replies and one refused one
OnbHist == MaxHist - 2

OnbChat ==
    /\ \E message \in OnbMessages(session) :
          LET r == chat(session, message, now, [ok |-> FALSE, text |-> <<>>])
          IN  /\ Len(r.session.history) <= OnbHist
              /\ session' = r.session
              /\ last' = [op |-> "chat", user_input |-> r.user_input,
                          response |-> r.response, renewed |-> r.renewed,
                          calls |-> r.calls, sent |-> r.sent, raw |-> r.raw,
                          failed |-> r.failed]
              /\ trail' = NextTrail(trail, r.session)
    /\ UNCHANGED <<now, tok, decoded, req, draw>>

OnbTick ==
    /\ now < MaxNow
    /\ session.step # "active"
    /\ now' = now + 1
    /\ UNCHANGED <<session, last, trail, tok, decoded, req, draw>>

OnbNext == OnbChat \/ OnbTick

SpecOnboard == Init /\ [][OnbNext]_vars

\* history h holds five turn pairs whose inputs are a mode selector n, the
\* ACCEPT of mode n, four in-range pairs, a duration selector and the
\* consent phrase of mode n
FiveInputs(h) ==
    /\ Len(h) = 10
    /\ h[1].parts[1] \in Selectors(5)
    /\ upper(h[3].parts[1]) = <<"ACCEPT", " ", modes[int(h[1].parts[1])]>>
    /\ Len(findall(h[5].parts[1])) = 4
    /\ \A i \in 1..4 : int(findall(h[5].parts[1])[i]) \in 0..10
    /\ h[7].parts[1] \in Selectors(4)
    /\ strip(h[9].parts[1]) = Consent(modes[int(h[1].parts[1])])

\* C20: from a fresh session the five inputs (mode selector n, ACCEPT of
\* mode n, four in-range pairs, duration selector d, consent phrase of mode
\* n) reach ACTIVE with a credential whose payload holds mode n, the budget
\* as allocated and the time of issue plus the duration (1, 4, 24 hours or
\* unbounded); ACTIVE is not reached by fewer than five inputs; an ACCEPT or
\* a consent phrase that names another mode does not advance the step.
C20_FiveInputsActivate ==
    [][ ChatStep =>
          LET h == session'.history
          IN  /\ FiveInputs(h)
                 => LET n == int(h[1].parts[1])
                        d == int(h[7].parts[1])
                        alloc == [i \in 1..4 |-> int(findall(h[5].parts[1])[i])]
                    IN  /\ session'.step = "active"
                        /\ session'.pmt # None
                        /\ session'.pmt.payload.mode = modes[n]
                        /\ \A i \in 1..4 :
                              /\ session'.risk_budget[keys[i]] = alloc[i]
                              /\ session'.pmt.payload.risk_budget[keys[i]] = alloc[i]
                        /\ session'.pmt.payload.exp
                             = now + (CASE d = 1 -> 1 [] d = 2 -> 4 [] d = 3 -> 24
                                        [] d = 4 -> 999999)
              /\ session'.step = "active" => Len(h) >= 10
              /\ (/\ session.step \in {"contract", "handshake"}
                  /\ \E m \in {modes[i] : i \in 1..5} :
                        /\ m # session.mode
                        /\ \/ upper(last'.user_input) = <<"ACCEPT", " ", m>>
                           \/ strip(last'.user_input) = Consent(m))
                 => /\ session'.step = session.step
                    /\ session'.pmt = None ]_vars

\* mode 5 was activated for 4 hours at hour 1 by exactly five inputs
C20_Witness ==
    /\ session.step = "active"
    /\ FiveInputs(session.history)
    /\ session.mode = modes[5]
    /\ session.pmt # None
    /\ session.pmt.payload.mode = modes[5]
    /\ session.pmt.payload.exp = 5
    /\ session.duration_hours = 4

\* an ACCEPT that named another mode was refused at CONTRACT, and the
\* session was activated afterwards
C20_WitnessOtherMode ==
    /\ session.step = "active"
    /\ Len(session.history) = 12
    /\ upper(session.history[3].parts[1]) # <<"ACCEPT", " ", session.mode>>
    /\ upper(session.history[5].parts[1]) = <<"ACCEPT", " ", session.mode>>

----------------------------------------------------------------------------
(* The allocation line.  A client writes a list of values as index:value    *)
(* pairs, in one of several layouts, and sends it to a session that waits   *)
(* at RISK_BUDGET.                                                          *)

\* A client writes at most MaxPairs pairs.
MaxPairs == 5

\* the values a client writes
PairValues == {0, 7, 10, 11}

\* str(n) for n >= 0
RECURSIVE str(_)
str(n) == IF n < 10 THEN <<DigitLex(n)>> ELSE str(n \div 10) \o <<DigitLex(n % 10)>>

Layouts ==
    [gap : {<<>>, <<" ">>}, sep : {<<" ">>, <<",", " ">>},
     order : {"ascending", "descending"}, lead : {<<>>, <<"budget", " ">>}]

\* the line of the values vs in layout f
RECURSIVE WritePairs(_, _, _)
WritePairs(vs, f, i) ==
    IF i > Len(vs) THEN <<>>
    ELSE LET index == IF f.order = "ascending" THEN i ELSE Len(vs) + 1 - i
         IN  str(index) \o <<":">> \o f.gap \o str(vs[i])
               \o (IF i < Len(vs) THEN f.sep ELSE <<>>)
               \o WritePairs(vs, f, i + 1)

Line(d) == d.layout.lead \o WritePairs(d.values, d.layout, 1)

\* the session after the mode and its ACCEPT
AtRiskBudget ==
    LET out == [ok |-> FALSE, text |-> <<>>]
        s1  == chat(SessionState, <<"1">>, 0, out).session
    IN  chat(s1, <<"ACCEPT", " ", modes[1]>>, 0, out).session

ParseInit ==
    /\ session = AtRiskBudget
    /\ now = 0
    /\ last = NoLast
    /\ trail = <<"mode_selection", "contract", "risk_budget">>
    /\ tok = None
    /\ decoded = None
    /\ req = [i \in Threads |-> Idle]
    /\ draw \in [values : UNION {[1..n -> PairValues] : n \in 0..MaxPairs},
                 layout : Layouts]

ParseChat ==
    /\ last.op = "none"
    /\ LET r == chat(session, Line(draw), now, [ok |-> FALSE, text |-> <<>>])
       IN  /\ session' = r.session
           /\ last' = [op |-> "chat", user_input |-> r.user_input,
                       response |-> r.response, renewed |-> r.renewed,
                       calls |-> r.calls, sent |-> r.sent, raw |-> r.raw,
                       failed |-> r.failed]
           /\ trail' = NextTrail(trail, r.session)
    /\ UNCHANGED <<now, tok, decoded, req, draw>>

ParseNext == ParseChat

SpecParse == ParseInit /\ [][ParseNext]_vars

\* C21: at RISK_BUDGET a line is accepted exactly when it holds four
\* index:value pairs whose values all lie in [0,10]; the four values then go,
\* in the order written, to epistemic_uncertainty, metaphysical_abstraction,
\* non_consensus_reasoning and paradox_exposure and step becomes DURATION; a
\* line with fewer or more pairs, or a value above 10, leaves risk_budget and
\* step as they were.
C21_FourInRangePairs ==
    last.op = "chat"
      => LET vs == draw.values
             four == Len(vs) = 4 /\ \A i \in 1..4 : vs[i] \in 0..10
         IN  /\ session.step = "duration" <=> four
             /\ four => /\ DOMAIN session.risk_budget = Categories
                        /\ session.risk_budget["epistemic_uncertainty"] = vs[1]
                        /\ session.risk_budget["metaphysical_abstraction"] = vs[2]
                        /\ session.risk_budget["non_consensus_reasoning"] = vs[3]
                        /\ session.risk_budget["paradox_exposure"] = vs[4]
             /\ ~four => /\ session.step = "risk_budget"
                         /\ session.risk_budget = AtRiskBudget.risk_budget
                         /\ DOMAIN session.risk_budget = {}

\* the line "budget 4: 10, 3: 0, 2: 7, 1: 10" was accepted
C21_Witness ==
    /\ last.op = "chat"
    /\ draw.values = <<10, 0, 7, 10>>
    /\ draw.layout = [gap |-> <<" ">>, sep |-> <<",", " ">>,
                      order |-> "descending", lead |-> <<"budget", " ">>]
    /\ session.step = "duration"
    /\ session.risk_budget["metaphysical_abstraction"] = 0

\* a line of four pairs with the value 11 was refused
C21_WitnessOutOfRange ==
    /\ last.op = "chat"
    /\ Len(draw.values) = 4
    /\ \E i \in 1..4 : draw.values[i] = 11
    /\ last.response = <<"Values must be between 0 and 10.">>

----------------------------------------------------------------------------
(* The Streamlit variant (streamlit_app.py).  Here the variable session     *)
(* holds st.session_state: step, mode, risk_budget, history and the         *)
(* displayed messages.  There is no duration, no handshake and no           *)
(* credential: the allocation step leads to ACTIVE.  Nothing is uploaded,   *)
(* so text_context and image_context are None.                              *)

\* lines 103-108: the defaults of a new session
st_session_state ==
    [ history     |-> <<>>,
      messages    |-> <<>>,
      step        |-> "mode_selection",
      mode        |-> NoMode,
      risk_budget |-> [k \in {} |-> 0] ]

Message(role, content) == [role |-> role, content |-> content]

\* simple_risk_decrement of streamlit_app.py, with its own word lists
st_simple_risk_decrement(text) ==
    LET lowered == lower(text)
    IN  [k \in Categories |->
           CASE k = "epistemic_uncertainty" ->
                  IF AnyWord(lowered, {"maybe", "possibly", "hypothesis"}) THEN 1 ELSE 0
             [] k = "metaphysical_abstraction" ->
                  IF AnyWord(lowered, {"ontology", "simulation", "consciousness", "dream"})
                  THEN 2 ELSE 0
             [] k = "non_consensus_reasoning" ->
                  IF AnyWord(lowered, {"non-consensus", "trap", "illusion"}) THEN 1 ELSE 0
             [] k = "paradox_exposure" ->
                  IF AnyWord(lowered, {"paradox", "loop", "recursive"}) THEN 2 ELSE 0]

generate_response(s, user_input, out) ==
    IF HardStop(user_input)
    THEN [session |-> s, response |-> <<"HARD_STOP: Illegal content requested.">>]
    ELSE IF ~out.ok
    THEN [session |-> s, response |-> <<"System Error">>]
    ELSE IF HardStop(out.text)
    THEN [session |-> s, response |-> <<"HARD_STOP: Output suppressed.">>]
    ELSE LET consumption == st_simple_risk_decrement(out.text)
             budget == [k \in DOMAIN s.risk_budget |->
                          Max(0, s.risk_budget[k] - consumption[k])]
             depleted == SelectSeq(keys, LAMBDA k : budget[k] <= 0)
             footer == <<"Running Risk Budget: ">> \o BudgetText(budget)
         IN  [session |-> [s EXCEPT !.risk_budget = budget,
                                    !.history = @ \o <<Turn("user", user_input),
                                                       Turn("model", out.text)>>],
              response |-> IF depleted # <<>>
                           THEN <<"BUDGET WARNING: ">> \o depleted \o out.text \o footer
                           ELSE out.text \o footer]

\* lines 337-376: the handler of st.chat_input
chat_input(s, prompt, out) ==
    LET s1 == [s EXCEPT !.messages = Append(@, Message("user", prompt))]
        r  == CASE s1.step = "contract" ->
                     IF strip(upper(prompt)) = <<"ACCEPT", " ", s1.mode>>
                     THEN [session |-> [s1 EXCEPT !.step = "risk_budget"],
                           response |-> <<"Allocated Budget (0-10). Format: 1:10, 2:10, 3:10, 4:10">>]
                     ELSE [session |-> s1,
                           response |-> <<"Please type exactly: ", "ACCEPT", " ", s1.mode>>]
                [] s1.step = "risk_budget" ->
                     LET matches == findall(prompt)
                     IN  IF Len(matches) = 4
                         THEN [session |->
                                 [s1 EXCEPT !.risk_budget =
                                              [k \in Categories |->
                                                 int(matches[CHOOSE i \in 1..4 : keys[i] = k])],
                                            !.step = "active"],
                               response |-> <<"Handshake Complete. Mode: ", s1.mode,
                                              ". System Active.">>]
                         ELSE [session |-> s1,
                               response |-> <<"Invalid format. Try: '1:10 2:10 3:10 4:10'">>]
                [] s1.step = "active" ->
                     IF upper(strip(prompt)) = <<"RENEW">>
                     THEN [session |-> [s1 EXCEPT !.risk_budget =
                                          [k \in DOMAIN s1.risk_budget |-> 10]],
                           response |-> <<"ADMIN: Risk Budget Replenished to 10/10.">>]
                     ELSE IF \E k \in DOMAIN s1.risk_budget : s1.risk_budget[k] <= 0
                     THEN [session |-> s1,
                           response |-> <<"Budget Depleted. Type 'RENEW' to continue.">>]
                     ELSE generate_response(s1, prompt, out)
                [] OTHER -> [session |-> s1, response |-> <<>>]
    IN  [r EXCEPT !.session.messages = Append(@, Message("assistant", r.response))]

\* what the user types at each step
Prompts(s) ==
    CASE s.step = "contract" ->
           { <<"accept", " ", s.mode, " ">>, <<"hello">> }
      [] s.step = "risk_budget" ->
           { Alloc(<<"1">>, <<"1">>, <<"1">>, <<"3">>),
             Alloc(<<"1", "1">>, <<"2">>, <<"1">>, <<"2">>),
             Pair("1", <<"5">>) \o <<" ">> \o Pair("2", <<"5">>) \o <<" ">>
               \o Pair("3", <<"5">>),
             <<"hello">> }
      [] s.step = "active" ->
           { <<"hello">>, <<" ", "Renew">>, <<"a", " ", "Bomb">> }
      [] OTHER -> { <<"hello">> }

\* the longest list of displayed messages explored
StCap == MaxHist - 4

StInit ==
    /\ session = st_session_state
    /\ now = 0
    /\ last = NoLast
    /\ trail = <<"mode_selection">>
    /\ tok = None
    /\ decoded = None
    /\ req = [i \in Threads |-> Idle]
    /\ draw = None

\* lines 316-325: the mode selector, of which two options are explored, and
\* the Initialize button
Initialize ==
    /\ session.step = "mode_selection"
    /\ \E choice \in {modes[1], modes[2]} :
          session' = [session EXCEPT !.mode = choice, !.step = "contract",
                                     !.messages =
                                        Append(@, Message("assistant",
                                                          <<"MODE CONTRACT - ", choice,
                                                            " Type 'ACCEPT ", choice, "'.">>))]
    /\ last' = [NoLast EXCEPT !.op = "initialize"]
    /\ UNCHANGED <<now, trail, tok, decoded, req, draw>>

ChatInput ==
    /\ \E prompt \in Prompts(session), out \in Outputs :
          LET r == chat_input(session, prompt, out)
          IN  /\ Len(r.session.messages) <= StCap
              /\ session' = r.session
              /\ last' = [NoLast EXCEPT !.op = "chat_input", !.user_input = prompt,
                                        !.response = r.response]
    /\ UNCHANGED <<now, trail, tok, decoded, req, draw>>

\* lines 300-305: the Renew Budget button of the sidebar
RenewButton ==
    /\ session.step = "active"
    /\ Len(session.messages) < StCap
    /\ session' = [session EXCEPT
                     !.risk_budget = [k \in DOMAIN session.risk_budget |-> 10],
                     !.messages = Append(@, Message("assistant",
                                                    <<"ADMIN: Risk Budget Replenished.">>))]
    /\ last' = [NoLast EXCEPT !.op = "renew_button"]
    /\ UNCHANGED <<now, trail, tok, decoded, req, draw>>

\* lines 236-242: the New Session button drops every key, and the next run
\* of the script sets the defaults
NewSession ==
    /\ session' = st_session_state
    /\ last' = [NoLast EXCEPT !.op = "new_session"]
    /\ UNCHANGED <<now, trail, tok, decoded, req, draw>>

StNext == Initialize \/ ChatInput \/ RenewButton \/ NewSession

SpecStreamlit == StInit /\ [][StNext]_vars

\* C27: in the Streamlit variant an allocation is stored only when it has
\* four values in [0,10], so every stored category value lies in [0,10] in
\* every reachable state.
C27_StreamlitBudgetBounded ==
    /\ DOMAIN session.risk_budget \in {{}, Categories}
    /\ \A k \in DOMAIN session.risk_budget : session.risk_budget[k] \in 0..10

====
